---- MODULE Spec2Model ----
(***************************************************************************)
(* Model of main.py: a LINE webhook that relays a text or an image message *)
(* to a generative API and replies with the (cleaned) answer.              *)
(*                                                                         *)
(* The server is one uvicorn process (main.py:169-172); callback is an     *)
(* async function that does not await between the call of handler.handle   *)
(* and its return, so one request is handled at a time.  The model serves  *)
(* requests one after another and keeps the log of the get_advice calls    *)
(* made so far.  Spec serves several requests while the API answers short  *)
(* texts; SpecSingle serves one request while the API answers long texts.  *)
(*                                                                         *)
(* A text is a sequence of one-character strings.  TLA+ strings are ASCII, *)
(* so each fixed Chinese message of the source is written as a             *)
(* one-element sequence holding an English rendering of it; none of the    *)
(* fixed messages contains one of the characters * # -                     *)
(***************************************************************************)
EXTENDS Integers, Sequences, FiniteSets, TLC

\* ------------------------------------------------------------------ bounds
\* Longest text the generative API returns while one request is served
\* (SpecSingle).
MaxLen == 4
\* Longest text the generative API returns while several requests are
\* served one after another (Spec).
StubLen == 1
\* Number of requests served in one behaviour of Spec.
MaxRequests == 2

\* ------------------------------------------------------------ fixed texts
\* main.py:131  "分析完成，但沒有產生文字回應。"
EmptyMsg == <<"Analysis finished, but no text response was produced.">>
\* main.py:135  "AI 目前忙碌中，請稍後再試。"
BusyMsg == <<"AI is busy right now, please try again later.">>
\* main.py:79   "抱歉，我無法讀取這張圖片，請稍後再試。"
ImageFallback == <<"Sorry, I cannot read this image, please try again later.">>
\* main.py:74   "請分析這張對話截圖"
ImagePrompt == "Please analyse this chat screenshot"

\* Characters of a generated text: the three markup characters and a letter.
Alphabet == {"*", "#", "-", "a"}
Texts(n) == UNION {[1..k -> Alphabet] : k \in 0..n}
\* Texts a user sends (event.message.text).
UserTexts == {"hello", "bye"}

\* Exception classes of google.api_core.exceptions the API client raises,
\* and any other exception.
ExcClasses == {"InvalidArgument", "Unauthenticated", "ResourceExhausted", "Other"}

\* What model.generate_content(inputs) does: raises, returns a response
\* whose prompt was blocked by the safety filter, or returns a response
\* carrying a text (possibly the empty text).
Raises(c) == [kind |-> "raise", class |-> c, text |-> <<>>]
Blocked == [kind |-> "blocked", class |-> "none", text |-> <<>>]
Answer(t) == [kind |-> "text", class |-> "none", text |-> t]
NoResponse == [kind |-> "none", class |-> "none", text |-> <<>>]
Outcomes(n) ==
    {Raises(c) : c \in ExcClasses} \cup {Blocked} \cup {Answer(t) : t \in Texts(n)}

\* ------------------------------------------------------------ str.replace
\* Python's s.replace(old, ""): scan from the left, drop each
\* non-overlapping occurrence of old.
RECURSIVE Replace(_, _)
Replace(s, old) ==
    IF Len(s) < Len(old) THEN s
    ELSE IF SubSeq(s, 1, Len(old)) = old
         THEN Replace(SubSeq(s, Len(old) + 1, Len(s)), old)
         ELSE <<Head(s)>> \o Replace(Tail(s), old)

\* s contains sub as a substring.
Contains(s, sub) ==
    \E i \in 1..(Len(s) - Len(sub) + 1) : SubSeq(s, i, i + Len(sub) - 1) = sub

Stars == <<"*", "*">>
Hash2 == <<"#", "#">>
Hash3 == <<"#", "#", "#">>
Dashes == <<"-", "-", "-">>

\* main.py:128  the chain of four replace calls.
clean_text(t) == Replace(Replace(Replace(Replace(t, Stars), Hash2), Hash3), Dashes)

\* ------------------------------------------------------------------ state
VARIABLES
    apiLen,      \* length of the longest text the generative API answers
    model,       \* the module global `model`: "configured" or "undefined"
    served,      \* number of requests completed before the current one
    pc,          \* position of the current request in the code
    request,     \* the current request: header, signature, body, text, token
    response,    \* what generate_content did in the current get_advice call
    reply_text,  \* the local reply_text of the running event handler
    imgFail,     \* why the image could not be read: "none", "fetch", "decode"
    genCalls,    \* calls of model.generate_content for the current request
    fetchCalls,  \* calls of line_bot_api.get_message_content, same
    replyCalls,  \* calls of line_bot_api.reply_message, same, in order
    status,      \* HTTP status answered to the current request, 0 for none yet
    escaped,     \* where an exception left uncaught came from
    adviceLog    \* the get_advice calls completed so far, in order

vars == <<apiLen, model, served, pc, request, response, reply_text, imgFail,
          genCalls, fetchCalls, replyCalls, status, escaped, adviceLog>>

\* A POST /callback request.  body is what the payload parses to: a text
\* message event, an image message event, an event no handler is registered
\* for, or nothing (a malformed payload).
Requests(tok) ==
    [header : BOOLEAN, sigValid : BOOLEAN,
     body : {"text", "image", "other", "malformed"},
     text : UserTexts, token : {tok}]

NoRequest == [header |-> FALSE, sigValid |-> FALSE, body |-> "malformed",
              text |-> "hello", token |-> 0]

\* main.py:35-40  genai.configure / GenerativeModel at import time: when it
\* raises, the exception is logged and the name `model` is never bound.
Boot ==
    /\ model \in {"configured", "undefined"}
    /\ served = 0
    /\ pc = "idle"
    /\ request = NoRequest
    /\ response = NoResponse
    /\ reply_text = <<>>
    /\ imgFail = "none"
    /\ genCalls = 0
    /\ fetchCalls = 0
    /\ replyCalls = <<>>
    /\ status = 0
    /\ escaped = "none"
    /\ adviceLog = <<>>

\* The server of Spec: several requests, short answers of the API.
Init == Boot /\ apiLen = StubLen

\* The server of SpecSingle: one request, long answers of the API.
InitSingle == Boot /\ apiLen = MaxLen

\* ------------------------------------------------------------ get_advice
\* get_advice with an except clause that catches ValueError only: an
\* exception of generate_content leaves get_advice.
get_advice_narrow(resp) ==
    IF resp.kind = "text"
    THEN IF resp.text # <<>>
         THEN [raised |-> FALSE, text |-> clean_text(resp.text)]
         ELSE [raised |-> FALSE, text |-> EmptyMsg]
    ELSE IF resp.kind = "blocked"
    THEN [raised |-> FALSE, text |-> BusyMsg]
    ELSE [raised |-> TRUE, text |-> <<>>]

\* get_advice with a per-process quota: after the first call it answers
\* the busy message without looking at the response.
get_advice_quota(resp) ==
    IF adviceLog # <<>>
    THEN [raised |-> FALSE, text |-> BusyMsg]
    ELSE IF resp.kind = "text"
    THEN IF resp.text # <<>>
         THEN [raised |-> FALSE, text |-> clean_text(resp.text)]
         ELSE [raised |-> FALSE, text |-> EmptyMsg]
    ELSE [raised |-> FALSE, text |-> BusyMsg]

\* main.py:122-135  the result of get_advice once generate_content has done
\* resp: raised is whether an exception leaves get_advice, text the value
\* returned.  `response.text` of a blocked response raises ValueError, which
\* the except clause catches like any exception of generate_content.
get_advice(resp) ==
    IF resp.kind = "text"
    THEN IF resp.text # <<>>
         THEN [raised |-> FALSE, text |-> clean_text(resp.text)]
         ELSE [raised |-> FALSE, text |-> EmptyMsg]
    ELSE [raised |-> FALSE, text |-> BusyMsg]

\* reply_line without its try/except: a failure of reply_message leaves it.
reply_line_unguarded(ok) == ~ok

\* main.py:81-85  reply_line: whether an exception of reply_message leaves
\* reply_line (ok is whether reply_message succeeded).
reply_line_raises(ok) == FALSE

\* The arguments of the get_advice call of the current event handler.
AdviceText == IF request.body = "image" THEN ImagePrompt ELSE request.text
AdviceImage == request.body = "image"

\* ---------------------------------------------------------------- actions
\* main.py:43-44  a request arrives; a request without the X-Line-Signature
\* header raises KeyError, which nothing catches.
callback ==
    /\ pc = "idle"
    /\ \E r \in Requests(served + 1) :
        /\ request' = r
        /\ IF r.header
           THEN /\ pc' = "body"
                /\ UNCHANGED <<status, escaped>>
           ELSE /\ pc' = "done"
                /\ status' = 500
                /\ escaped' = "header"
    /\ UNCHANGED <<apiLen, model, served, response, reply_text, imgFail, genCalls,
                   fetchCalls, replyCalls, adviceLog>>

\* main.py:45  body = await request.body()
read_body ==
    /\ pc = "body"
    /\ pc' = "handle"
    /\ UNCHANGED <<apiLen, model, served, request, response, reply_text, imgFail,
                   genCalls, fetchCalls, replyCalls, status, escaped, adviceLog>>

\* handler.handle without the signature check: every payload is parsed and
\* dispatched.
handle_unverified ==
    /\ pc = "handle"
    /\ IF request.body = "malformed"
       THEN /\ pc' = "done"
            /\ status' = 500
            /\ escaped' = "parse"
       ELSE /\ pc' = CASE request.body = "text" -> "handle_text_message"
                       [] request.body = "image" -> "handle_image_message"
                       [] OTHER -> "return"
            /\ UNCHANGED <<status, escaped>>
    /\ UNCHANGED <<apiLen, model, served, request, response, reply_text, imgFail,
                   genCalls, fetchCalls, replyCalls, adviceLog>>

\* main.py:46-49, 53, 63  handler.handle: the signature is verified first
\* (InvalidSignatureError becomes HTTP 400), then the payload is parsed (a
\* parse error is not caught), then the event goes to its registered handler.
handle ==
    /\ pc = "handle"
    /\ IF ~request.sigValid
       THEN /\ pc' = "done"
            /\ status' = 400
            /\ UNCHANGED escaped
       ELSE IF request.body = "malformed"
       THEN /\ pc' = "done"
            /\ status' = 500
            /\ escaped' = "parse"
       ELSE /\ pc' = CASE request.body = "text" -> "handle_text_message"
                       [] request.body = "image" -> "handle_image_message"
                       [] OTHER -> "return"
            /\ UNCHANGED <<status, escaped>>
    /\ UNCHANGED <<apiLen, model, served, request, response, reply_text, imgFail,
                   genCalls, fetchCalls, replyCalls, adviceLog>>

\* main.py:54-59  handle_text_message up to the call of get_advice.
handle_text_message ==
    /\ pc = "handle_text_message"
    /\ pc' = "get_advice"
    /\ UNCHANGED <<apiLen, model, served, request, response, reply_text, imgFail,
                   genCalls, fetchCalls, replyCalls, status, escaped, adviceLog>>

\* main.py:64-69  handle_image_message: get_message_content succeeds or raises.
handle_image_message ==
    /\ pc = "handle_image_message"
    /\ fetchCalls' = fetchCalls + 1
    /\ \E ok \in BOOLEAN :
        IF ok
        THEN /\ pc' = "image_open"
             /\ UNCHANGED imgFail
        ELSE /\ pc' = "image_except"
             /\ imgFail' = "fetch"
    /\ UNCHANGED <<apiLen, model, served, request, response, reply_text, genCalls,
                   replyCalls, status, escaped, adviceLog>>

\* handle_image_message with Image.open outside the try: an undecodable
\* image still reaches get_advice.
image_open_lenient ==
    /\ pc = "image_open"
    /\ \E ok \in BOOLEAN :
        /\ pc' = "get_advice"
        /\ imgFail' = IF ok THEN imgFail ELSE "decode"
    /\ UNCHANGED <<apiLen, model, served, request, response, reply_text, genCalls,
                   fetchCalls, replyCalls, status, escaped, adviceLog>>

\* main.py:70-74  Image.open decodes the bytes or raises; on success the
\* handler calls get_advice.
image_open ==
    /\ pc = "image_open"
    /\ \E ok \in BOOLEAN :
        IF ok
        THEN /\ pc' = "get_advice"
             /\ UNCHANGED imgFail
        ELSE /\ pc' = "image_except"
             /\ imgFail' = "decode"
    /\ UNCHANGED <<apiLen, model, served, request, response, reply_text, genCalls,
                   fetchCalls, replyCalls, status, escaped, adviceLog>>

\* get_advice whose except clause does not return: after a failed call the
\* second prompt/generate block (main.py:137-158) runs and calls again.
generate_content_fallthrough ==
    /\ pc = "get_advice"
    /\ IF model = "undefined"
       THEN /\ response' = Raises("NameError")
            /\ UNCHANGED genCalls
       ELSE \E o1, o2 \in Outcomes(apiLen) :
              IF o1.kind = "raise"
              THEN /\ genCalls' = genCalls + 2
                   /\ response' = o2
              ELSE /\ genCalls' = genCalls + 1
                   /\ response' = o1
    /\ pc' = "advice_result"
    /\ UNCHANGED <<apiLen, model, served, request, reply_text, imgFail, fetchCalls,
                   replyCalls, status, escaped, adviceLog>>

\* main.py:114-123  get_advice builds its inputs and calls
\* model.generate_content; with `model` unbound the lookup raises NameError
\* inside the try and no call is made.
generate_content ==
    /\ pc = "get_advice"
    /\ IF model = "undefined"
       THEN /\ response' = Raises("NameError")
            /\ UNCHANGED genCalls
       ELSE /\ genCalls' = genCalls + 1
            /\ \E o \in Outcomes(apiLen) : response' = o
    /\ pc' = "advice_result"
    /\ UNCHANGED <<apiLen, model, served, request, reply_text, imgFail, fetchCalls,
                   replyCalls, status, escaped, adviceLog>>

\* main.py:125-135, 59, 74  get_advice returns (or raises) into the event
\* handler: in handle_text_message an exception leaves the handler, in
\* handle_image_message it is caught by the except clause of line 77.
advice_result ==
    /\ pc = "advice_result"
    /\ LET res == get_advice(response) IN
        /\ adviceLog' = Append(adviceLog,
               [text |-> AdviceText, image |-> AdviceImage,
                response |-> response, raised |-> res.raised,
                reply |-> res.text])
        /\ IF ~res.raised
           THEN /\ reply_text' = res.text
                /\ pc' = "reply"
                /\ UNCHANGED <<status, escaped>>
           ELSE IF request.body = "image"
           THEN /\ pc' = "image_except"
                /\ UNCHANGED <<reply_text, status, escaped>>
           ELSE /\ pc' = "done"
                /\ status' = 500
                /\ escaped' = "handler"
                /\ UNCHANGED reply_text
    /\ UNCHANGED <<apiLen, model, served, request, response, imgFail, genCalls,
                   fetchCalls, replyCalls>>

\* main.py:60, 75, 81-85  reply_line(event.reply_token, reply_text).
reply ==
    /\ pc = "reply"
    /\ \E ok \in BOOLEAN :
        /\ replyCalls' = Append(replyCalls,
               [token |-> request.token, text |-> reply_text, ok |-> ok])
        /\ IF ~reply_line_raises(ok)
           THEN /\ pc' = "return"
                /\ UNCHANGED <<status, escaped>>
           ELSE IF request.body = "image"
           THEN /\ pc' = "image_except"
                /\ UNCHANGED <<status, escaped>>
           ELSE /\ pc' = "done"
                /\ status' = 500
                /\ escaped' = "handler"
    /\ UNCHANGED <<apiLen, model, served, request, response, reply_text, imgFail,
                   genCalls, fetchCalls, adviceLog>>

\* main.py:77-79  the except clause of handle_image_message.
image_except ==
    /\ pc = "image_except"
    /\ \E ok \in BOOLEAN :
        /\ replyCalls' = Append(replyCalls,
               [token |-> request.token, text |-> ImageFallback, ok |-> ok])
        /\ IF ~reply_line_raises(ok)
           THEN /\ pc' = "return"
                /\ UNCHANGED <<status, escaped>>
           ELSE /\ pc' = "done"
                /\ status' = 500
                /\ escaped' = "handler"
    /\ UNCHANGED <<apiLen, model, served, request, response, reply_text, imgFail,
                   genCalls, fetchCalls, adviceLog>>

\* main.py:50  return 'OK'
return_ok ==
    /\ pc = "return"
    /\ pc' = "done"
    /\ status' = 200
    /\ UNCHANGED <<apiLen, model, served, request, response, reply_text, imgFail,
                   genCalls, fetchCalls, replyCalls, escaped, adviceLog>>

\* The request is over: its locals and the bookkeeping of its calls are
\* dropped, the server waits for the next request.
next_request ==
    /\ pc = "done"
    /\ served + 1 < MaxRequests
    /\ served' = served + 1
    /\ pc' = "idle"
    /\ request' = NoRequest
    /\ response' = NoResponse
    /\ reply_text' = <<>>
    /\ imgFail' = "none"
    /\ genCalls' = 0
    /\ fetchCalls' = 0
    /\ replyCalls' = <<>>
    /\ status' = 0
    /\ escaped' = "none"
    /\ UNCHANGED <<apiLen, model, adviceLog>>

Next ==
    \/ callback
    \/ read_body
    \/ handle
    \/ handle_text_message
    \/ handle_image_message
    \/ image_open
    \/ generate_content
    \/ advice_result
    \/ reply
    \/ image_except
    \/ return_ok
    \/ next_request

Spec == Init /\ [][Next]_vars

\* One request from its arrival to its answer.
NextSingle ==
    \/ callback
    \/ read_body
    \/ handle
    \/ handle_text_message
    \/ handle_image_message
    \/ image_open
    \/ generate_content
    \/ advice_result
    \/ reply
    \/ image_except
    \/ return_ok

SpecSingle == InitSingle /\ [][NextSingle]_vars

TypeOK ==
    /\ apiLen \in {StubLen, MaxLen}
    /\ model \in {"configured", "undefined"}
    /\ served \in 0..(MaxRequests - 1)
    /\ status \in {0, 200, 400, 500}
    /\ genCalls \in Nat
    /\ fetchCalls \in Nat
    /\ escaped \in {"none", "header", "parse", "handler"}
    /\ imgFail \in {"none", "fetch", "decode"}

\* ----------------------------------------------------------------- claims
\* The current request carried a valid signature and parsed to a message
\* event a handler is registered for.
Dispatched ==
    request.header /\ request.sigValid /\ request.body \in {"text", "image"}

\* The event handler of the current request has finished.
Handled == pc \in {"return", "done"}

Markup == {<<"*", "*">>, <<"#", "#">>, <<"#", "#", "#">>, <<"-", "-", "-">>}

\* C1: a request whose signature is invalid is answered HTTP 400, and during
\* it neither reply_message nor generate_content nor get_message_content is
\* called.
C1_InvalidSignature ==
    (request.header /\ ~request.sigValid) =>
        /\ genCalls = 0
        /\ fetchCalls = 0
        /\ replyCalls = <<>>
        /\ pc = "done" => status = 400

C1_Witness ==
    /\ pc = "done"
    /\ request.header /\ ~request.sigValid
    /\ request.body = "image"
    /\ status = 400

\* C2 (as claimed): for a text event with a valid signature, the text passed
\* to reply_line is non-empty and contains none of ** ## ### ---.
C2_CleanReply ==
    (Handled /\ Dispatched /\ request.body = "text") =>
        /\ Len(replyCalls) = 1
        /\ replyCalls[1].text # <<>>
        /\ \A m \in Markup : ~Contains(replyCalls[1].text, m)

\* C3: once the signature check and the parse have succeeded the request is
\* answered HTTP 200 and no exception leaves handler.handle, whatever failed
\* downstream.
C3_AlwaysOK ==
    (pc = "done" /\ request.header /\ request.sigValid
        /\ request.body # "malformed") =>
        status = 200 /\ escaped = "none"

C3_Witness ==
    /\ pc = "done"
    /\ status = 200
    /\ request.body = "text"
    /\ response.kind = "raise"
    /\ Len(replyCalls) = 1
    /\ ~replyCalls[1].ok

\* C4 (as claimed): for a safety-blocked prompt get_advice returns a message
\* of its own, which is neither the empty-response message nor the message
\* returned for an exception.
C4_BlockedMessage ==
    \A i \in DOMAIN adviceLog :
        adviceLog[i].response.kind = "blocked" =>
            /\ ~adviceLog[i].raised
            /\ adviceLog[i].reply \notin {EmptyMsg, BusyMsg}

\* C5 (as claimed): get_advice answers exceptions of different classes
\* (invalid argument, unauthenticated, resource exhausted, other) with
\* different messages.
C5_ClassifiedMessages ==
    \A i, j \in DOMAIN adviceLog :
        (/\ adviceLog[i].response.kind = "raise"
         /\ adviceLog[j].response.kind = "raise"
         /\ adviceLog[i].response.class \in ExcClasses
         /\ adviceLog[j].response.class \in ExcClasses
         /\ adviceLog[i].response.class # adviceLog[j].response.class)
        => adviceLog[i].reply # adviceLog[j].reply

\* C6: for an image event whose content cannot be fetched or decoded,
\* generate_content is never called and the one reply is the image fallback
\* message.
C6_ImageFallback ==
    imgFail # "none" =>
        /\ genCalls = 0
        /\ Handled =>
            /\ Len(replyCalls) = 1
            /\ replyCalls[1].text =
                 <<"Sorry, I cannot read this image, please try again later.">>

C6_Witness ==
    /\ pc = "done"
    /\ imgFail = "decode"
    /\ fetchCalls = 1
    /\ Len(replyCalls) = 1

\* C7: when generate_content raises the rate-limit (resource exhausted)
\* exception, for a text and for an image event, the reply is the busy
\* message and no exception leaves the event handler.
C7_RateLimited ==
    (Handled /\ response = Raises("ResourceExhausted")) =>
        /\ escaped = "none"
        /\ Len(replyCalls) = 1
        /\ replyCalls[1].text = <<"AI is busy right now, please try again later.">>

C7_Witness ==
    /\ pc = "done"
    /\ request.body = "image"
    /\ response = Raises("ResourceExhausted")
    /\ Len(replyCalls) = 1
    /\ \E i \in DOMAIN adviceLog :
          /\ adviceLog[i].image = FALSE
          /\ adviceLog[i].response = Raises("ResourceExhausted")

\* C8: generate_content is called at most once for an event, whether it
\* succeeds, returns no text or raises.
C8_AtMostOneGenerate == genCalls <= 1

C8_Witness ==
    /\ pc = "done"
    /\ genCalls = 1
    /\ response.kind = "raise"
    /\ Len(replyCalls) = 1

C10_ExactlyOneReply ==
    /\ Len(replyCalls) <= 1
    /\ \A i \in DOMAIN replyCalls : replyCalls[i].token = served + 1
    /\ (Handled /\ Dispatched) => Len(replyCalls) = 1

C10_Witness ==
    /\ pc = "done"
    /\ request.body = "image"
    /\ imgFail = "none"
    /\ genCalls = 1
    /\ Len(replyCalls) = 1
    /\ ~replyCalls[1].ok
    /\ replyCalls[1].text # ImageFallback
====
